---- MODULE Spec2Model ----
(***************************************************************************)
(* PUT /api/admin/thesis/{id}: the update-thesis route handler.            *)
(* A request is handled by one invocation of the async handler; every      *)
(* await (database call, session lookup) is a point where another          *)
(* invocation may run.  The database tables are the shared state.          *)
(***************************************************************************)
EXTENDS Integers, Sequences, FiniteSets, TLC

VARIABLES thesisTable, history, req

vars == <<thesisTable, history, req>>

(* ------------------------------------------------------------------ *)
(* Bounds                                                             *)
(* ------------------------------------------------------------------ *)

\* longest keywords array a request body carries
MaxKeywords == 1

\* most fields an object body carries, the full six-field payload aside
MaxFields == 1

(* ------------------------------------------------------------------ *)
(* JSON values                                                        *)
(* ------------------------------------------------------------------ *)

JStr(s) == [type |-> "string", str |-> s, items |-> <<>>]
JNum == [type |-> "number", str |-> "", items |-> <<>>]
JArr(xs) == [type |-> "array", str |-> "", items |-> xs]
Undefined == [type |-> "undefined", str |-> "", items |-> <<>>]

\* obj.key of a plain object: undefined when the key is not there
Get(obj, key) == IF key \in DOMAIN obj THEN obj[key] ELSE Undefined

\* a || b: an empty string falls through as well
CoalesceOr(a, b) ==
    IF a.type \in {"undefined", "null"} \/ (a.type = "string" /\ a.str = "") THEN b ELSE a

\* a ?? b
Coalesce(a, b) == IF a.type \in {"undefined", "null"} THEN b ELSE a

\* truthiness of a value, as if (v) tests it
Truthy(v) ==
    /\ v.type \notin {"undefined", "null"}
    /\ ~(v.type = "string" /\ v.str = "")

None == {}
Some(x) == {x}
The(s) == CHOOSE x \in s : TRUE

(* ------------------------------------------------------------------ *)
(* updateThesisSchema                                                 *)
(* ------------------------------------------------------------------ *)

Fields == {"title", "author_name", "category", "keywords", "abstract", "status"}

\* an enumeration with one member more
StatusEnumWide == {"Pending", "Approved", "Rejected", "Archived"}

\* z.enum(["Pending", "Approved", "Rejected"])
StatusEnum == {"Pending", "Approved", "Rejected"}

IsString(v) == v.type = "string"

\* whether the value of a present key satisfies the key's schema
FieldOK(key, v) ==
    CASE key = "title" -> IsString(v) /\ v.str # ""
      [] key = "author_name" -> IsString(v) /\ v.str # ""
      [] key = "category" -> IsString(v)
      [] key = "keywords" ->
            v.type = "array" /\ \A i \in 1..Len(v.items) : IsString(v.items[i])
      [] key = "abstract" -> IsString(v)
      [] key = "status" -> IsString(v) /\ v.str \in StatusEnum

\* the paths of the issues ZodError.errors lists for an object body
Issues(fields) == {k \in DOMAIN fields : ~FieldOK(k, fields[k])}

(* ------------------------------------------------------------------ *)
(* Path ids and BigInt                                                *)
(* ------------------------------------------------------------------ *)

Digits == <<"0", "1", "2", "3", "4", "5", "6", "7", "8", "9">>

IsDigit(c) == \E i \in 1..Len(Digits) : Digits[i] = c

DigitVal(c) == (CHOOSE i \in 1..Len(Digits) : Digits[i] = c) - 1

\* whether BigInt(id) returns rather than throwing a SyntaxError
BigIntParses(id) == \A i \in 1..Len(id) : IsDigit(id[i])

RECURSIVE BigInt(_)
BigInt(id) ==
    IF id = <<>> THEN 0
    ELSE BigInt(SubSeq(id, 1, Len(id) - 1)) * 10 + DigitVal(id[Len(id)])

\* thesis_id.toString()
RECURSIVE IdToString(_)
IdToString(n) ==
    IF n < 10 THEN <<Digits[n + 1]>>
    ELSE Append(IdToString(n \div 10), Digits[(n % 10) + 1])

(* ------------------------------------------------------------------ *)
(* Database contents                                                  *)
(* ------------------------------------------------------------------ *)

\* the user table; this route never writes it
Users ==
    { [id |-> 1, username |-> "alice", email |-> "alice@uni.edu"],
      [id |-> 2, username |-> "dave", email |-> "dave@uni.edu"],
      [id |-> 3, username |-> "admin", email |-> "admin@uni.edu"] }

\* the users a session may belong to
Actors == {u \in Users : u.username = "admin"}

\* the thesis table before the first request; scalar columns only
InitTheses ==
    { [thesis_id |-> 1, title |-> JStr("X"), category |-> JStr("ML"),
       keywords |-> JArr(<<JStr("k0")>>), abstract |-> JStr("A0"),
       status |-> JStr("Pending"), author_id |-> 1, updated_at |-> 0],
      [thesis_id |-> 2, title |-> JStr("Z"), category |-> JStr("DB"),
       keywords |-> JArr(<<>>), abstract |-> JStr("A1"),
       status |-> JStr("Approved"), author_id |-> 2, updated_at |-> 0] }

\* prisma.thesis.findUnique({ where: { thesis_id } }): no include, so the
\* row carries its columns and no author relation
FindUniqueThesis(table, tid) == {r \in table : r.thesis_id = tid}

\* prisma.user.findUnique({ where: { username } })
FindUniqueUser(username) == {u \in Users : u.username = username}

(* ------------------------------------------------------------------ *)
(* Requests                                                           *)
(* ------------------------------------------------------------------ *)

\* the handler invocations, numbered in order of arrival
Procs == {1, 2}

PathIds == { <<"1">>, <<"4", "2">>, <<"a", "b", "c">> }

KeywordArrays ==
    {JArr([i \in 1..n |-> JStr("k1")]) : n \in 0..MaxKeywords}

\* values a body may give a key that satisfy the schema
ValidValues(key) ==
    CASE key = "title" -> {JStr("Y")}
      [] key = "author_name" -> {JStr("dave"), JStr("bob")}
      [] key = "category" -> {JStr("AI"), JStr("")}
      [] key = "keywords" -> KeywordArrays
      [] key = "abstract" -> {JStr("B")}
      [] key = "status" -> {JStr("Approved")}

\* values a body may give a key that violate the schema
InvalidValues(key) ==
    CASE key = "title" -> {JStr(""), JNum}
      [] key = "author_name" -> {JStr("")}
      [] key = "category" -> {JNum}
      [] key = "keywords" -> {JStr("k1"), JArr(<<JNum>>)}
      [] key = "abstract" -> {}
      [] key = "status" -> {JStr("Archived")}

Values(key) == ValidValues(key) \cup InvalidValues(key)

NoFields == [k \in {} |-> Undefined]

ObjectsOver(D) == {f \in [D -> UNION {Values(k) : k \in D}] : \A k \in D : f[k] \in Values(k)}

\* the full payloads: all six fields, each with a schema-valid value
FullObjects ==
    { [title |-> t, author_name |-> a, category |-> c, keywords |-> k,
       abstract |-> b, status |-> s] :
        t \in ValidValues("title"), a \in ValidValues("author_name"),
        c \in ValidValues("category"), k \in ValidValues("keywords"),
        b \in ValidValues("abstract"), s \in ValidValues("status") }

Objects ==
    UNION {ObjectsOver(D) : D \in {E \in SUBSET Fields : Cardinality(E) <= MaxFields}}
        \cup FullObjects

\* a request body as sent: nothing, text that is not JSON, or a JSON value
Bodies ==
    { [kind |-> k, fields |-> NoFields] : k \in {"empty", "garbage", "null", "array"} }
        \cup { [kind |-> "object", fields |-> f] : f \in Objects }

NoBody == [kind |-> "empty", fields |-> NoFields]

\* a handler invocation before its request arrives
IdleReq ==
    [ pc |-> "idle", id |-> <<>>, body |-> NoBody, actor |-> None,
      parsedBody |-> NoFields, thesis |-> None, author |-> None,
      updatedThesis |-> None, thesisResponse |-> None, currentUser |-> None,
      response |-> None,
      trace |-> <<>>, overlap |-> FALSE, after |-> {} ]

InFlight(r) == r.pc \notin {"idle", "done"}

(* ------------------------------------------------------------------ *)
(* The handler's pure parts                                           *)
(* ------------------------------------------------------------------ *)

\* whether req.json() throws a SyntaxError
JsonThrows(body) == body.kind \in {"empty", "garbage"}

\* if (!body)
BodyFalsy(body) == body.kind = "null"

\* updateThesisSchema.parse(body): the issues' paths, {} when it returns
ZodIssues(body) ==
    IF body.kind = "object" THEN Issues(body.fields) ELSE {"<root>"}

JsonResponse(status, message, errors, thesis) ==
    [status |-> status, message |-> message, errors |-> errors, thesis |-> thesis]

\* NextResponse.json(body) without a status option answers 200
NotFoundNoStatus(message) == JsonResponse(200, message, {}, None)

NotFound(message) == JsonResponse(404, message, {}, None)

\* a catch block that takes every error for a validation error
CatchResponseAll400(error, issues) ==
    JsonResponse(400, "Validation failed", issues, None)

\* the catch block
CatchResponse(error, issues) ==
    IF error = "ZodError"
    THEN JsonResponse(400, "Validation failed", issues, None)
    ELSE JsonResponse(500, "Internal Server Error", {}, None)

\* a handler without the author check
AuthorMissingNever(author) == FALSE

\* if (!author)
AuthorMissing(author) == author = None

\* a data object that adds the body's keywords to the stored ones
UpdateDataAppend(parsedBody, thesis, author) ==
    [ title |-> Coalesce(Get(parsedBody, "title"), thesis.title),
      category |-> Coalesce(Get(parsedBody, "category"), thesis.category),
      keywords |->
        IF "keywords" \in DOMAIN parsedBody
        THEN JArr(thesis.keywords.items \o parsedBody.keywords.items)
        ELSE thesis.keywords,
      abstract |-> Coalesce(Get(parsedBody, "abstract"), thesis.abstract),
      status |-> Coalesce(Get(parsedBody, "status"), thesis.status),
      author_id |-> IF author = None THEN thesis.author_id ELSE The(author).id ]

\* the data object of prisma.thesis.update
UpdateData(parsedBody, thesis, author) ==
    [ title |-> Coalesce(Get(parsedBody, "title"), thesis.title),
      category |-> Coalesce(Get(parsedBody, "category"), thesis.category),
      keywords |-> Coalesce(Get(parsedBody, "keywords"), thesis.keywords),
      abstract |-> Coalesce(Get(parsedBody, "abstract"), thesis.abstract),
      status |-> Coalesce(Get(parsedBody, "status"), thesis.status),
      author_id |-> IF author = None THEN thesis.author_id ELSE The(author).id ]

\* the row's update timestamp moves on with every update
Touch(t) == t + 1

\* prisma.thesis.update({ where: { thesis_id }, data }) on one row
UpdateRow(row, data) ==
    [ thesis_id |-> row.thesis_id, title |-> data.title, category |-> data.category,
      keywords |-> data.keywords, abstract |-> data.abstract, status |-> data.status,
      author_id |-> data.author_id, updated_at |-> Touch(row.updated_at) ]

UpdateWhere(table, tid, data) ==
    {IF r.thesis_id = tid THEN UpdateRow(r, data) ELSE r : r \in table}

\* author ? author.username : thesis.author.username
\* thesis is a findUnique result without include: it has no author property,
\* and reading .username of undefined throws a TypeError (None here)
AuthorName(author, thesis) ==
    IF author # None THEN Some(The(author).username)
    ELSE IF "author" \in DOMAIN thesis THEN Some(thesis.author.username)
    ELSE None

ThesisResponse(updatedThesis, authorName) ==
    [ thesis_id |-> IdToString(updatedThesis.thesis_id),
      title |-> updatedThesis.title,
      author_name |-> authorName,
      category |-> updatedThesis.category,
      keywords |-> updatedThesis.keywords,
      abstract |-> updatedThesis.abstract,
      status |-> updatedThesis.status ]

\* a history row that names the title read before the update
HistoryDataOldTitle(r) ==
    [ user_id |-> The(r.currentUser).id, action |-> "Updated Thesis",
      title |-> The(r.thesis).title.str, email |-> The(r.currentUser).email ]

\* the data object of prisma.history.create; the description is the
\* template's two interpolated parts, the title and the email
HistoryData(r) ==
    [ user_id |-> The(r.currentUser).id, action |-> "Updated Thesis",
      title |-> The(r.updatedThesis).title.str, email |-> The(r.currentUser).email ]

(* ------------------------------------------------------------------ *)
(* The handler, one action per stretch of code between awaits         *)
(* ------------------------------------------------------------------ *)

Init ==
    /\ thesisTable = InitTheses
    /\ history = <<>>
    /\ req = [p \in Procs |-> IdleReq]

Respond(r, resp) == [r EXCEPT !.pc = "done", !.response = Some(resp)]

Did(r, step) == [r EXCEPT !.trace = Append(@, step)]

\* lines 18-32: read the path id, parse and validate the body, convert the id
Arrive(r, id, body, actor) ==
    LET r0 == [r EXCEPT !.id = id, !.body = body, !.actor = Some(actor)]
    IN  IF JsonThrows(body) THEN Respond(r0, CatchResponse("SyntaxError", {}))
        ELSE IF BodyFalsy(body)
        THEN Respond(r0, JsonResponse(400, "Request body is empty or malformed", {}, None))
        ELSE IF ZodIssues(body) # {}
        THEN Respond(r0, CatchResponse("ZodError", ZodIssues(body)))
        ELSE IF ~BigIntParses(id) THEN Respond(r0, CatchResponse("SyntaxError", {}))
        ELSE [r0 EXCEPT !.pc = "findThesis", !.parsedBody = body.fields]

Start(p) ==
    /\ req[p].pc = "idle"
    /\ \A q \in Procs : q < p => req[q].pc # "idle"
    /\ \E id \in PathIds, body \in Bodies, actor \in Actors :
        LET busy == {q \in Procs \ {p} : InFlight(req[q])}
            done == {q \in Procs : req[q].pc = "done"}
        IN  req' = [q \in Procs |->
                      IF q = p
                      THEN [Arrive(req[p], id, body, actor) EXCEPT
                              !.overlap = busy # {}, !.after = done]
                      ELSE IF q \in busy THEN [req[q] EXCEPT !.overlap = TRUE]
                      ELSE req[q]]
    /\ UNCHANGED <<thesisTable, history>>

\* lines 31-41: the thesis lookup returns
FindThesis(p) ==
    /\ req[p].pc = "findThesis"
    /\ LET r == Did(req[p], "findThesis")
           thesis == FindUniqueThesis(thesisTable, BigInt(r.id))
       IN  req' = [req EXCEPT ![p] =
                IF thesis = None
                THEN Respond(r, NotFound("Thesis not found"))
                ELSE IF Truthy(Get(r.parsedBody, "author_name"))
                THEN [r EXCEPT !.thesis = thesis, !.pc = "findAuthor"]
                ELSE [r EXCEPT !.thesis = thesis, !.pc = "update"]]
    /\ UNCHANGED <<thesisTable, history>>

\* lines 42-49: the author lookup returns
FindAuthor(p) ==
    /\ req[p].pc = "findAuthor"
    /\ LET r == Did(req[p], "findAuthor")
           author == FindUniqueUser(r.parsedBody.author_name.str)
       IN  req' = [req EXCEPT ![p] =
                IF AuthorMissing(author)
                THEN Respond(r, NotFound("Author not found"))
                ELSE [r EXCEPT !.author = author, !.pc = "update"]]
    /\ UNCHANGED <<thesisTable, history>>

\* lines 52-77: the update is applied and returns the row, the response
\* object is built, the session lookup is called
Update(p) ==
    /\ req[p].pc = "update"
    /\ LET r == Did(req[p], "update")
           tid == BigInt(r.id)
           table == UpdateWhere(thesisTable, tid,
                                UpdateData(r.parsedBody, The(r.thesis), r.author))
           updatedThesis == FindUniqueThesis(table, tid)
           authorName == AuthorName(r.author, The(r.thesis))
           r1 == [r EXCEPT !.updatedThesis = updatedThesis]
       IN  /\ thesisTable' = table
           /\ req' = [req EXCEPT ![p] =
                IF authorName = None
                THEN Respond(r1, CatchResponse("TypeError", {}))
                ELSE [r1 EXCEPT
                        !.thesisResponse =
                            Some(ThesisResponse(The(updatedThesis), The(authorName))),
                        !.pc = "session"]]
    /\ UNCHANGED history

\* line 77: getUserFromSession returns the acting user
GetSession(p) ==
    /\ req[p].pc = "session"
    /\ req' = [req EXCEPT ![p] =
            [Did(req[p], "session") EXCEPT !.currentUser = req[p].actor, !.pc = "history"]]
    /\ UNCHANGED <<thesisTable, history>>

\* lines 80-91: the history row is inserted, the success response returned
CreateHistory(p) ==
    /\ req[p].pc = "history"
    /\ history' = Append(history, HistoryData(req[p]))
    /\ req' = [req EXCEPT ![p] =
            Respond(Did(req[p], "insert"),
                    JsonResponse(200, "Thesis updated successfully", {}, req[p].thesisResponse))]
    /\ UNCHANGED thesisTable

\* an awaited call rejects: the catch block answers, the later steps never run
Throw(p, step) ==
    /\ req[p].pc = step
    /\ req' = [req EXCEPT ![p] =
            Respond(Did(req[p], "throw"), CatchResponse("Error", {}))]
    /\ UNCHANGED <<thesisTable, history>>

FindThesisThrows(p) == Throw(p, "findThesis")
FindAuthorThrows(p) == Throw(p, "findAuthor")
UpdateThrows(p) == Throw(p, "update")
GetSessionThrows(p) == Throw(p, "session")
CreateHistoryThrows(p) == Throw(p, "history")

Next ==
    \E p \in Procs :
        \/ Start(p)
        \/ FindThesis(p)
        \/ FindAuthor(p)
        \/ Update(p)
        \/ GetSession(p)
        \/ CreateHistory(p)

\* the handler with collaborators whose calls all return
Spec == Init /\ [][Next]_vars

\* the same handler with collaborators that may fail
NextFault ==
    \/ Next
    \/ \E p \in Procs :
        \/ FindThesisThrows(p)
        \/ FindAuthorThrows(p)
        \/ UpdateThrows(p)
        \/ GetSessionThrows(p)
        \/ CreateHistoryThrows(p)

SpecFault == Init /\ [][NextFault]_vars

(* ------------------------------------------------------------------ *)
(* Properties                                                         *)
(* ------------------------------------------------------------------ *)

Done(p) == req[p].pc = "done"

Status(p) == The(req[p].response).status

Count(trace, step) == Cardinality({i \in 1..Len(trace) : trace[i] = step})

NUpdates(p) == Count(req[p].trace, "update")

NInserts(p) == Count(req[p].trace, "insert")

RECURSIVE StampSum(_)
StampSum(rows) ==
    IF rows = {} THEN 0
    ELSE LET r == CHOOSE x \in rows : TRUE IN r.updated_at + StampSum(rows \ {r})

RECURSIVE StepSum(_, _)
StepSum(step, ps) ==
    IF ps = {} THEN 0
    ELSE LET p == CHOOSE x \in ps : TRUE
         IN  Count(req[p].trace, step) + StepSum(step, ps \ {p})

\* the steps the requests recorded are the writes the tables show: every
\* history row is one request's insert, every timestamp move one request's update
WritesAccounted ==
    /\ Len(history) = StepSum("insert", Procs)
    /\ StampSum(thesisTable) = StepSum("update", Procs)

\* C1: a PUT whose body is empty or is not JSON is answered 400, with no
\* thesis update and no history insert
C1_EmptyOrNonJsonBodyIs400 ==
    \A p \in Procs :
        (Done(p) /\ req[p].body.kind \in {"empty", "garbage"}) =>
            /\ Status(p) = 400
            /\ NUpdates(p) = 0
            /\ NInserts(p) = 0

\* the schema as the claim words it: title or author_name an empty string,
\* status outside the enumeration, keywords not a sequence of strings, or a
\* field of the wrong type
C2_Violations(body) ==
    IF body.kind # "object" THEN {"<root>"}
    ELSE LET f == body.fields IN
         {k \in DOMAIN f :
            \/ k # "keywords" /\ f[k].type # "string"
            \/ k \in {"title", "author_name"} /\ f[k].str = ""
            \/ k = "status" /\ f[k].str \notin {"Pending", "Approved", "Rejected"}
            \/ k = "keywords" /\ f[k].type # "array"
            \/ k = "keywords" /\ \E i \in 1..Len(f[k].items) : f[k].items[i].type # "string"}

\* C2: a PUT whose parsed JSON body violates the schema is answered 400 with
\* the list of violations, and runs no thesis lookup, update or history insert
C2_SchemaViolationIs400 ==
    \A p \in Procs :
        (/\ req[p].pc # "idle"
         /\ req[p].body.kind \in {"array", "object"}
         /\ C2_Violations(req[p].body) # {}) =>
            /\ Done(p)
            /\ Status(p) = 400
            /\ The(req[p].response).errors = C2_Violations(req[p].body)
            /\ req[p].trace = <<>>

C2_Witness ==
    \E p \in Procs :
        /\ Done(p)
        /\ req[p].body.kind = "object"
        /\ DOMAIN req[p].body.fields = {"status"}
        /\ req[p].body.fields.status = JStr("Archived")
        /\ Status(p) = 400
        /\ The(req[p].response).errors = {"status"}

SchemaValid(p) ==
    req[p].body.kind = "object" /\ C2_Violations(req[p].body) = {}

\* the path id is the decimal numeral of no stored thesis_id
NoThesisFor(id) ==
    ~\E r \in thesisTable : BigIntParses(id) /\ r.thesis_id = BigInt(id)

AuthorSupplied(p) == "author_name" \in DOMAIN req[p].body.fields

AuthorUnknown(p) ==
    /\ AuthorSupplied(p)
    /\ ~\E u \in Users : u.username = req[p].body.fields.author_name.str

\* C3 as stated: with a schema-valid body, a path id of no thesis, or a
\* supplied author_name of no user, is answered 404 with nothing written
C3_NotFoundIs404 ==
    \A p \in Procs :
        (Done(p) /\ SchemaValid(p) /\ (NoThesisFor(req[p].id) \/ AuthorUnknown(p))) =>
            /\ Status(p) = 404
            /\ NUpdates(p) = 0
            /\ NInserts(p) = 0

\* C3 amended: the same for the path ids that BigInt accepts
C3_NotFoundIs404ForIntegerIds ==
    /\ WritesAccounted
    /\ {r.thesis_id : r \in thesisTable} = {r.thesis_id : r \in InitTheses}
    /\ \A p \in Procs :
        (/\ Done(p) /\ SchemaValid(p) /\ BigIntParses(req[p].id)
         /\ (NoThesisFor(req[p].id) \/ AuthorUnknown(p))) =>
            /\ Status(p) = 404
            /\ NUpdates(p) = 0
            /\ NInserts(p) = 0

C3_Witness ==
    \E p \in Procs :
        /\ Done(p)
        /\ req[p].id = <<"1">>
        /\ DOMAIN req[p].body.fields = {"author_name"}
        /\ req[p].body.fields.author_name = JStr("bob")
        /\ Status(p) = 404
        /\ req[p].trace = <<"findThesis", "findAuthor">>
        /\ \E r \in thesisTable : r.thesis_id = 1 /\ r.author_id = 1 /\ r.updated_at = 0

DataFields == {"title", "category", "keywords", "abstract", "status"}

RowOf(table, tid) == CHOOSE r \in table : r.thesis_id = tid

UserIdOf(username) == (CHOOSE u \in Users : u.username = username).id

\* the step of p's update, seen on the table: the row of the path id takes the
\* body's value in every field the body has and keeps the rest
C4_Merged(p) ==
    LET tid == BigInt(req[p].id)
        f == req[p].body.fields
        old == RowOf(thesisTable, tid)
        new == RowOf(thesisTable', tid)
    IN  /\ \A k \in DataFields : new[k] = IF k \in DOMAIN f THEN f[k] ELSE old[k]
        /\ new.author_id =
             IF "author_name" \in DOMAIN f THEN UserIdOf(f.author_name.str)
             ELSE old.author_id
        /\ Cardinality(thesisTable') = Cardinality(thesisTable)
        /\ \A r \in thesisTable : r.thesis_id # tid => r \in thesisTable'

\* C4: a request that reaches the thesis update with no other request
\* interleaved replaces each of title, category, keywords, abstract and status
\* that its body has, keeps each one it has not, sets author_id to the named
\* user's id when author_name is supplied and keeps it otherwise, and changes
\* no thesis_id
C4_MergePatch ==
    [][\A p \in Procs :
         (req[p].pc = "update" /\ req'[p].pc # "update" /\ ~req[p].overlap)
            => C4_Merged(p)]_vars

C4_Witness ==
    \E p \in Procs :
        /\ Done(p)
        /\ ~req[p].overlap
        /\ NUpdates(p) = 1
        /\ req[p].id = <<"1">>
        /\ DOMAIN req[p].body.fields = {"category"}
        /\ req[p].body.fields.category = JStr("")
        /\ RowOf(thesisTable, 1).category = JStr("")
        /\ RowOf(thesisTable, 1).title = JStr("X")

ThesisExists(p) == BigIntParses(req[p].id) /\ ~NoThesisFor(req[p].id)

UsernameOf(id) == (CHOOSE u \in Users : u.id = id).username

\* C5: a schema-valid PUT on an existing thesis whose author_name, if
\* supplied, names a user is answered 200 with the merged values and the
\* author_name of the supplied author, or of the prior author when omitted
C5_ValidUpdateIs200 ==
    \A p \in Procs :
        (Done(p) /\ SchemaValid(p) /\ ThesisExists(p) /\ ~AuthorUnknown(p)) =>
            /\ Status(p) = 200
            /\ req[p].response # None
            /\ The(req[p].response).thesis # None
            /\ LET t == The(The(req[p].response).thesis)
                   f == req[p].body.fields
               IN  /\ \A k \in DataFields \cap DOMAIN f : t[k] = f[k]
                   /\ AuthorSupplied(p) => t.author_name = f.author_name.str
                   /\ ~AuthorSupplied(p) =>
                        t.author_name = UsernameOf(The(req[p].thesis).author_id)

\* C6: a 200 response follows exactly one thesis update and then exactly one
\* history insert by the session's user, naming the updated title and the
\* actor's email; no request makes two updates, two inserts, or an insert
\* without an update before it
C6_OneUpdateOneInsert ==
    /\ WritesAccounted
    /\ \A p \in Procs :
        LET tr == req[p].trace IN
        /\ NUpdates(p) <= 1
        /\ NInserts(p) <= 1
        /\ \A j \in 1..Len(tr) : tr[j] = "insert" => \E i \in 1..(j - 1) : tr[i] = "update"
        /\ (Done(p) /\ Status(p) = 200) =>
            /\ NUpdates(p) = 1
            /\ NInserts(p) = 1
            /\ \E i \in 1..Len(history) :
                /\ history[i].user_id = The(req[p].actor).id
                /\ history[i].email = The(req[p].actor).email
                /\ history[i].title = The(req[p].updatedThesis).title.str
                /\ "title" \in DOMAIN req[p].body.fields =>
                        history[i].title = req[p].body.fields.title.str

C6_Witness ==
    \E p \in Procs :
        /\ Done(p)
        /\ Status(p) = 200
        /\ "title" \in DOMAIN req[p].body.fields
        /\ Len(history) = 1
        /\ history[1].title = "Y"
        /\ history[1].email = "admin@uni.edu"

SameButUpdatedAt(a, b) == [a EXCEPT !.updated_at = 0] = [b EXCEPT !.updated_at = 0]

\* q is the same full payload on the same thesis as p, sent after p was answered
C7_Repeats(p, q) ==
    /\ p \in req[q].after
    /\ Done(q)
    /\ DOMAIN req[p].body.fields = Fields
    /\ req[q].body = req[p].body
    /\ ThesisExists(p) /\ ThesisExists(q)
    /\ BigInt(req[q].id) = BigInt(req[p].id)
    /\ SchemaValid(p) /\ ~AuthorUnknown(p)

\* C7: the same full payload applied twice in sequence leaves the stored
\* thesis after the second call as after the first, updated_at aside
C7_Idempotent ==
    \A p, q \in Procs :
        C7_Repeats(p, q) =>
            /\ NUpdates(p) = 1 /\ NUpdates(q) = 1
            /\ SameButUpdatedAt(RowOf(thesisTable, BigInt(req[q].id)),
                                The(req[p].updatedThesis))

C7_Witness ==
    \E p, q \in Procs :
        /\ C7_Repeats(p, q)
        /\ req[p].body.fields.keywords = JArr(<<JStr("k1")>>)
        /\ RowOf(thesisTable, BigInt(req[q].id)).updated_at = 2
        /\ The(req[p].updatedThesis).updated_at = 1

\* C8: every thesis has exactly one author_id, the id of an existing user, and
\* a request whose author_name names no user writes nothing and is rejected
C8_AuthorAlwaysValid ==
    /\ WritesAccounted
    /\ \A r \in thesisTable :
        /\ Cardinality({x \in thesisTable : x.thesis_id = r.thesis_id}) = 1
        /\ \E u \in Users : u.id = r.author_id
    /\ \A p \in Procs :
        (req[p].pc # "idle" /\ req[p].body.kind = "object" /\ AuthorUnknown(p)) =>
            /\ NUpdates(p) = 0
            /\ NInserts(p) = 0
            /\ req[p].pc \in {"findThesis", "findAuthor", "done"}
            /\ Done(p) => Status(p) # 200

C8_Witness ==
    /\ \E p \in Procs :
        /\ Done(p)
        /\ "findAuthor" \in {req[p].trace[i] : i \in 1..Len(req[p].trace)}
        /\ AuthorUnknown(p)
        /\ Status(p) = 404
    /\ \E p \in Procs :
        /\ Done(p)
        /\ AuthorSupplied(p)
        /\ Status(p) = 200
        /\ RowOf(thesisTable, 1).author_id = 2

Rank(step) ==
    CASE step = "findThesis" -> 1
      [] step = "findAuthor" -> 2
      [] step = "update" -> 3
      [] step = "session" -> 4
      [] step = "insert" -> 5
      [] step = "throw" -> 6

Steps(p) == {req[p].trace[i] : i \in 1..Len(req[p].trace)}

\* C9: the steps of a request run in the order thesis lookup, author lookup,
\* thesis update, session lookup, history insert; a step that throws ends the
\* request with a 500 response carrying a message and nothing runs after it;
\* a failed update leaves no history entry, and a failure after the update
\* leaves the thesis updated and unaudited
C9_OrderAndAbort ==
    /\ WritesAccounted
    /\ \A p \in Procs :
        LET tr == req[p].trace IN
        /\ \A i, j \in 1..Len(tr) : i < j => Rank(tr[i]) < Rank(tr[j])
        /\ "findAuthor" \in Steps(p) => "findThesis" \in Steps(p)
        /\ "update" \in Steps(p) => "findThesis" \in Steps(p)
        /\ "session" \in Steps(p) => "update" \in Steps(p)
        /\ "insert" \in Steps(p) => "session" \in Steps(p)
        /\ "throw" \in Steps(p) =>
            /\ Done(p)
            /\ Status(p) = 500
            /\ The(req[p].response).message # ""
            /\ NInserts(p) = 0
            /\ "update" \in Steps(p) =>
                 RowOf(thesisTable, BigInt(req[p].id)).updated_at >= 1

C9_Witness ==
    \E p \in Procs :
        /\ req[p].trace = <<"findThesis", "findAuthor", "update", "session", "throw">>
        /\ Status(p) = 500
        /\ history = <<>>
        /\ RowOf(thesisTable, 1).author_id = 2
        /\ \A q \in Procs \ {p} : req[q].pc = "idle"

\* C10: two requests on one thesis whose bodies set disjoint fields leave,
\* once both updates are done, both requests' values in the stored thesis
C10_ConcurrentDisjointMerge ==
    \A p, q \in Procs :
        (/\ p # q
         /\ NUpdates(p) = 1 /\ NUpdates(q) = 1
         /\ BigInt(req[p].id) = BigInt(req[q].id)
         /\ DOMAIN req[p].body.fields # {} /\ DOMAIN req[q].body.fields # {}
         /\ DOMAIN req[p].body.fields \cap DOMAIN req[q].body.fields = {}) =>
            \A k \in DataFields \cap DOMAIN req[p].body.fields :
                RowOf(thesisTable, BigInt(req[p].id))[k] = req[p].body.fields[k]

====
